---- MODULE Spec2Model ----
(***************************************************************************)
(* Model of kiwiutils: the pointer-based LinkedMinHeap of kiwilib.py and   *)
(* the finite-valued instance enumeration engine of finite_valued.py, and  *)
(* the library functions of kiwilib.py, enums.py and l10n_i18n.py.         *)
(***************************************************************************)
EXTENDS Integers, Sequences, FiniteSets, TLC

\* ------------------------------------------------------------------ bounds
MaxNodes == 7      \* node objects that can exist at once
MaxVal == 3        \* node values (keys) range over 1..MaxVal
MaxLen == 6        \* longest input sequence of the push-all/pop-all run
MaxCalls == 2      \* calls of all_instances in one run
MaxVF == 2         \* most entries of a validation_funcs mapping

None == 0
Nodes == 1..MaxNodes
Vals == 1..MaxVal

VARIABLES
    val, left, right, parent,   \* LinkedHeapNode fields, per node object
    head, last, size,           \* LinkedMinHeap fields
    op, arg, ret, raised,       \* last call: its name, the value of the node passed in,
                                \* the node returned, the error raised
    input, npushed, output,     \* push-all/pop-all run: values to push, count pushed, values popped
    type_, validation_funcs,    \* arguments of the all_instances calls (the mapping as last passed)
    result,                     \* what the last all_instances call yielded
    ncalls, ngen,               \* calls made; runs of the generation function for those calls
    fn, argv, res               \* last call of a library function: its name, arguments and outcome

heapVars == <<val, left, right, parent, head, last, size>>
callVars == <<op, arg, ret, raised>>
sortVars == <<input, npushed, output>>
engineVars == <<type_, validation_funcs, result, ncalls, ngen>>
libVars == <<fn, argv, res>>

\* The heap object together with the node objects it can reach.
self == [val |-> val, left |-> left, right |-> right, parent |-> parent,
         head |-> head, last |-> last, size |-> size]

\* A local variable assigned once: v is bound to the value of e, then F(v)
\* is evaluated.
Let(e, F(_)) == CHOOSE y \in {F(v) : v \in {e}} : TRUE

\* ------------------------------------------------------ LinkedMinHeap code
\* The key function handed to the constructor; the keys are the node values.
compF(h, n) == h.val[n]

RECURSIVE _getHeight(_)
_getHeight(treeSize) ==
    IF treeSize > 1 THEN 1 + _getHeight(treeSize \div 2) ELSE 1

height(h) == _getHeight(h.size)

RECURSIVE _leftmost(_, _)
_leftmost(h, child) ==
    IF h.left[child] # None THEN _leftmost(h, h.left[child]) ELSE child

RECURSIVE _getChild(_, _, _)
_getChild(h, p0, treeSize0) ==
    Let(<<p0, treeSize0>>, LAMBDA a :
    LET p == a[1]
        treeSize == a[2]
    IN
    IF treeSize = 0 THEN None
    ELSE IF treeSize < 3 THEN p
    ELSE Let(_getHeight(treeSize), LAMBDA ht :
         LET nOnAboveLevels == 2^(ht - 1) - 1
             nOnInsertionRow == (treeSize - nOnAboveLevels) % 2^(ht - 1)
         IN  IF nOnInsertionRow = 0 THEN _leftmost(h, h.left[p])
             ELSE IF nOnInsertionRow >= 2^(ht - 2)
                  THEN _getChild(h, h.right[p], treeSize - 2^(ht - 1))
                  ELSE _getChild(h, h.left[p], treeSize - 2^(ht - 2))))

\* sz = 0 stands for both "no argument" and the argument 0 (`if not size`).
_getNextParent(h, sz) ==
    _getChild(h, h.head, IF sz = 0 THEN h.size ELSE sz)

_swapWithParent(h0, item) ==
    Let(h0, LAMBDA h :
    LET tempL == h.left[item]
        tempR == h.right[item]
        tempP == h.parent[item]
        G     == h.parent[h.parent[item]]
    IN
    Let([h EXCEPT !.parent[item] = G,
                  !.last = IF h.last = item THEN tempP ELSE @], LAMBDA h1 :
    Let(IF G = None THEN [h1 EXCEPT !.head = item]
        ELSE IF h1.left[G] = tempP THEN [h1 EXCEPT !.left[G] = item]
        ELSE [h1 EXCEPT !.right[G] = item], LAMBDA h2 :
    Let(IF h2.left[tempP] = item
        THEN LET S == h2.right[tempP]
             IN  [(IF S # None THEN [h2 EXCEPT !.parent[S] = item] ELSE h2)
                     EXCEPT !.right[item] = S,
                            !.left[tempP] = tempL,
                            !.right[tempP] = tempR,
                            !.left[item] = tempP]
        ELSE LET S == h2.left[tempP]
             IN  [(IF S # None THEN [h2 EXCEPT !.parent[S] = item] ELSE h2)
                     EXCEPT !.left[item] = S,
                            !.left[tempP] = tempL,
                            !.right[tempP] = tempR,
                            !.right[item] = tempP], LAMBDA h3 :
    Let([h3 EXCEPT !.parent[tempP] = item], LAMBDA h4 :
    Let(IF tempL # None THEN [h4 EXCEPT !.parent[tempL] = tempP] ELSE h4, LAMBDA h5 :
    IF tempR # None THEN [h5 EXCEPT !.parent[tempR] = tempP] ELSE h5))))))

\* Variant: sifts up by at most one level.
_bubbleUp_once(h0, item) ==
    Let(h0, LAMBDA h :
    IF h.parent[item] # None /\ compF(h, item) < compF(h, h.parent[item])
    THEN _swapWithParent(
             [h EXCEPT !.last = IF item = h.last THEN h.parent[item] ELSE @], item)
    ELSE h)

\* Variant: sifts upward by exchanging the values of a node and its parent.
RECURSIVE _bubbleUp_byValue(_, _)
_bubbleUp_byValue(h0, item) ==
    Let(h0, LAMBDA h :
    IF h.parent[item] # None /\ compF(h, item) < compF(h, h.parent[item])
    THEN _bubbleUp_byValue(
             [h EXCEPT !.val[item] = h.val[h.parent[item]],
                       !.val[h.parent[item]] = h.val[item]],
             h.parent[item])
    ELSE h)

RECURSIVE _bubbleUp(_, _)
_bubbleUp(h0, item) ==
    Let(h0, LAMBDA h :
    IF h.parent[item] # None /\ compF(h, item) < compF(h, h.parent[item])
    THEN _bubbleUp(_swapWithParent(
                     [h EXCEPT !.last = IF item = h.last THEN h.parent[item] ELSE @],
                     item), item)
    ELSE h)

\* The loop of _bubbleDown.
RECURSIVE _bubbleDownLoop(_, _, _)
_bubbleDownLoop(h0, node, firstIter) ==
    Let(h0, LAMBDA h :
    IF h.right[node] = None THEN h
    ELSE LET l == h.left[node]
             r == h.right[node]
             c == IF compF(h, l) > compF(h, r) /\ compF(h, node) > compF(h, r) THEN r
                  ELSE IF compF(h, l) < compF(h, r) /\ compF(h, node) > compF(h, l) THEN l
                  ELSE None
         IN  IF c = None THEN h
             ELSE Let(_swapWithParent(h, c), LAMBDA s :
                  _bubbleDownLoop(
                      IF firstIter THEN [s EXCEPT !.head = s.parent[node]] ELSE s,
                      node, FALSE)))

_bubbleDown(h, node) ==
    Let(_bubbleDownLoop(h, node, TRUE), LAMBDA d :
    IF d.left[node] # None /\ compF(d, d.left[node]) < compF(d, node)
    THEN _swapWithParent(d, d.left[node])
    ELSE d)

push(h0, item) ==
    Let(h0, LAMBDA h :
    Let(_getNextParent(h, 0), LAMBDA p :
    LET h1 == IF p = None THEN [h EXCEPT !.head = item]
              ELSE IF h.size % 2 = 0 THEN [h EXCEPT !.right[p] = item]
              ELSE [h EXCEPT !.left[p] = item]
    IN  _bubbleUp([h1 EXCEPT !.size = @ + 1,
                             !.last = item,
                             !.left[item] = None,
                             !.right[item] = None,
                             !.parent[item] = p], item)))

\* Variant: the head node is swapped below its larger child.
RECURSIVE _popSiftLoop_larger(_, _, _)
_popSiftLoop_larger(h0, out, firstIter) ==
    Let(h0, LAMBDA h :
    IF h.right[out] = None THEN h
    ELSE LET c == IF compF(h, h.left[out]) < compF(h, h.right[out])
                  THEN h.right[out] ELSE h.left[out]
         IN  Let(_swapWithParent(h, c), LAMBDA s :
             _popSiftLoop_larger(
                 IF firstIter THEN [s EXCEPT !.head = s.parent[out]] ELSE s,
                 out, FALSE)))

\* The first loop of pop: the head node is swapped below its smaller child
\* until it has no right child.
RECURSIVE _popSiftLoop(_, _, _)
_popSiftLoop(h0, out, firstIter) ==
    Let(h0, LAMBDA h :
    IF h.right[out] = None THEN h
    ELSE LET c == IF compF(h, h.left[out]) > compF(h, h.right[out])
                  THEN h.right[out] ELSE h.left[out]
         IN  Let(_swapWithParent(h, c), LAMBDA s :
             _popSiftLoop(
                 IF firstIter THEN [s EXCEPT !.head = s.parent[out]] ELSE s,
                 out, FALSE)))

_swapVals(h0, a, b) ==
    Let(h0, LAMBDA h :
    LET temp == h.val[a]
    IN  [[h EXCEPT !.val[a] = h.val[b]] EXCEPT !.val[b] = temp])

\* Variant: the scan goes down the left spine.
RECURSIVE _rightmost_leftSpine(_, _)
_rightmost_leftSpine(h, n) ==
    IF h.left[n] # None THEN _rightmost_leftSpine(h, h.left[n]) ELSE n

\* `self.last = self.head; while self.last.right: self.last = self.last.right`
RECURSIVE _rightmost(_, _)
_rightmost(h, n) ==
    IF h.right[n] # None THEN _rightmost(h, h.right[n]) ELSE n

\* Variant: the returned node keeps its parent link.
_popGeneral_keepParent(h0) ==
    Let(h0, LAMBDA h :
    LET out0 == h.head IN
    Let(_popSiftLoop(h, out0, TRUE), LAMBDA a :
    Let(IF a.left[out0] # None THEN _swapWithParent(a, a.left[out0]) ELSE a, LAMBDA b :
    LET oldLast0 == b.last
        swapped  == b.last # out0
        out      == IF swapped THEN oldLast0 ELSE out0
    IN
    Let(IF swapped THEN _bubbleUp(_swapVals(b, out0, oldLast0), out0) ELSE b, LAMBDA c :
    Let([c EXCEPT !.size = @ - 1], LAMBDA d :
    LET po == d.parent[out] IN
    Let(IF d.right[po] # None
        THEN [d EXCEPT !.last = d.left[po], !.right[po] = None]
        ELSE IF height(d) = _getHeight(d.size + 1)
        THEN Let([d EXCEPT !.left[po] = None], LAMBDA e1 :
             [e1 EXCEPT !.last = e1.right[_getNextParent(e1, e1.size - 1)]])
        ELSE Let([d EXCEPT !.left[po] = None], LAMBDA e2 :
             [e2 EXCEPT !.last = _rightmost(e2, e2.head)]), LAMBDA e :
    [h |-> e, out |-> out, raised |-> "none"]))))))

\* The part of pop after the size-0 and size-1 cases; the result is the heap
\* and the returned node.
_popGeneral(h0) ==
    Let(h0, LAMBDA h :
    LET out0 == h.head IN
    Let(_popSiftLoop(h, out0, TRUE), LAMBDA a :
    Let(IF a.left[out0] # None THEN _swapWithParent(a, a.left[out0]) ELSE a, LAMBDA b :
    LET oldLast0 == b.last
        swapped  == b.last # out0
        out      == IF swapped THEN oldLast0 ELSE out0
    IN
    Let(IF swapped THEN _bubbleUp(_swapVals(b, out0, oldLast0), out0) ELSE b, LAMBDA c :
    Let([c EXCEPT !.size = @ - 1], LAMBDA d :
    LET po == d.parent[out] IN
    Let(IF d.right[po] # None
        THEN [d EXCEPT !.last = d.left[po], !.right[po] = None]
        ELSE IF height(d) = _getHeight(d.size + 1)
        THEN Let([d EXCEPT !.left[po] = None], LAMBDA e1 :
             [e1 EXCEPT !.last = e1.right[_getNextParent(e1, e1.size - 1)]])
        ELSE Let([d EXCEPT !.left[po] = None], LAMBDA e2 :
             [e2 EXCEPT !.last = _rightmost(e2, e2.head)]), LAMBDA e :
    [h |-> [e EXCEPT !.parent[out] = None], out |-> out, raised |-> "none"]))))))

\* Variant: no check for the empty heap; None is returned.
pop_noCheck(h0) ==
    Let(h0, LAMBDA h :
    IF h.size = 0 THEN [h |-> h, out |-> None, raised |-> "none"]
    ELSE IF h.size = 1
    THEN [h |-> [h EXCEPT !.size = 0, !.head = None, !.last = None],
          out |-> h.head, raised |-> "none"]
    ELSE _popGeneral(h))

\* Variant: the size-1 case forgets to clear `last`.
pop_keepLast(h0) ==
    Let(h0, LAMBDA h :
    IF h.size = 0 THEN [h |-> h, out |-> None, raised |-> "IndexError"]
    ELSE IF h.size = 1
    THEN [h |-> [h EXCEPT !.size = 0, !.head = None],
          out |-> h.head, raised |-> "none"]
    ELSE _popGeneral(h))

\* The result is the heap, the returned node and the error raised.
pop(h0) ==
    Let(h0, LAMBDA h :
    IF h.size = 0 THEN [h |-> h, out |-> None, raised |-> "IndexError"]
    ELSE IF h.size = 1
    THEN [h |-> [h EXCEPT !.size = 0, !.head = None, !.last = None],
          out |-> h.head, raised |-> "none"]
    ELSE _popGeneral(h))

\* Variant: an item not above the head is handed back and the heap is left
\* as it was (push then pop instead of pop then push).
popPush_pushThenPop(h0, item) ==
    Let(h0, LAMBDA h :
    IF h.head = None
    THEN [h |-> [h EXCEPT !.head = item], raised |-> "AttributeError"]
    ELSE IF h.val[item] <= h.val[h.head]
    THEN [h |-> h, raised |-> "none"]
    ELSE
    LET out == h.head IN
    Let([h EXCEPT !.head = item,
                  !.left[item] = h.left[out],
                  !.right[item] = h.right[out]], LAMBDA h1 :
    Let(IF h1.left[item] # None THEN [h1 EXCEPT !.parent[h1.left[item]] = item] ELSE h1,
        LAMBDA h2 :
    Let(IF h2.right[item] # None THEN [h2 EXCEPT !.parent[h2.right[item]] = item] ELSE h2,
        LAMBDA h3 :
    Let(_bubbleDown([h3 EXCEPT !.left[out] = None, !.right[out] = None], item),
        LAMBDA h5 :
    [h |-> IF h5.parent[item] = h5.last THEN [h5 EXCEPT !.last = item] ELSE h5,
     raised |-> "none"])))))

\* On an empty heap `out` is absent: `self.head = item` has already run when
\* `out.left` fails.  The result is the heap and the error raised.
popPush(h0, item) ==
    Let(h0, LAMBDA h :
    IF h.head = None
    THEN [h |-> [h EXCEPT !.head = item], raised |-> "AttributeError"]
    ELSE
    LET out == h.head IN
    Let([h EXCEPT !.head = item,
                  !.left[item] = h.left[out],
                  !.right[item] = h.right[out]], LAMBDA h1 :
    Let(IF h1.left[item] # None THEN [h1 EXCEPT !.parent[h1.left[item]] = item] ELSE h1,
        LAMBDA h2 :
    Let(IF h2.right[item] # None THEN [h2 EXCEPT !.parent[h2.right[item]] = item] ELSE h2,
        LAMBDA h3 :
    Let(_bubbleDown([h3 EXCEPT !.left[out] = None, !.right[out] = None], item),
        LAMBDA h5 :
    [h |-> IF h5.parent[item] = h5.last THEN [h5 EXCEPT !.last = item] ELSE h5,
     raised |-> "none"])))))

RECURSIVE _validateNode(_, _)
_validateNode(h, n) ==
    IF n = None THEN TRUE
    ELSE /\ compF(h, n) >= compF(h, h.parent[n])
         /\ _validateNode(h, h.left[n])
         /\ _validateNode(h, h.right[n])

validate(h) ==
    IF h.head = None THEN h.size = 0 /\ h.last = None
    ELSE /\ h.size > 0
         /\ h.last # None
         /\ _validateNode(h, h.left[h.head])
         /\ _validateNode(h, h.right[h.head])

\* LinkedHeapNode(v): a new node object, all links absent.
LinkedHeapNode(h, n, v) ==
    [h EXCEPT !.val[n] = v, !.left[n] = None, !.right[n] = None, !.parent[n] = None]

\* ------------------------------------------------------------ observations
\* Level-order position -> node, for the nodes reachable from h.head.
RECURSIVE _positions(_, _, _)
_positions(h, n, pos) ==
    IF n = None THEN {}
    ELSE {<<pos, n>>} \cup _positions(h, h.left[n], 2 * pos)
                      \cup _positions(h, h.right[n], 2 * pos + 1)

Positions(h) == _positions(h, h.head, 1)
Reachable(h) == {pn[2] : pn \in Positions(h)}

\* The multiset of values stored in the heap: value -> number of nodes holding it.
StoredVals(h) ==
    Let(Reachable(h), LAMBDA R :
    [v \in Vals |-> Cardinality({n \in R : h.val[n] = v})])

\* Node objects a constructor call can return: none that the heap still
\* references.  Object identities are interchangeable, so the constructor
\* hands out the least one.
Free(h) == Nodes \ (Reachable(h) \cup {h.last})
Alloc(h) == Let(Free(h), LAMBDA fr : CHOOSE n \in fr : \A m \in fr : n <= m)

\* The reachable nodes in level order, then the other nodes still referenced
\* (a `last` outside the tree, the node `keep` held by the caller).
RECURSIVE _byPosition(_)
_byPosition(P0) ==
    Let(P0, LAMBDA P :
    IF P = {} THEN <<>>
    ELSE Let(CHOOSE x \in P : \A y \in P : x[1] <= y[1], LAMBDA m :
         <<m[2]>> \o _byPosition(P \ {m})))

LiveOrder(h, keep) ==
    Let(Positions(h), LAMBDA P :
    LET inTree == {pn[2] : pn \in P}
        l == IF h.last # None /\ h.last \notin inTree THEN <<h.last>> ELSE <<>>
        k == IF keep # None /\ keep \notin inTree /\ keep # h.last THEN <<keep>> ELSE <<>>
    IN  _byPosition(P) \o l \o k)

\* Node objects are interchangeable and those referenced by nobody no longer
\* exist, so a state is kept up to the renaming of its node objects: the
\* referenced nodes are numbered in LiveOrder and the fields of the other
\* identities read as initial.  The result is the renamed heap and the new
\* name of `keep`.
Canon(h0, keep0) ==
    Let(<<h0, keep0>>, LAMBDA hk :
    LET h == hk[1]
        keep == hk[2]
    IN
    Let(LiveOrder(h, keep), LAMBDA ord :
    LET k == Len(ord)
        new(n) == IF n = None THEN None
                  ELSE CHOOSE i \in 1..k : ord[i] = n
    IN  [h |-> [val    |-> [i \in Nodes |-> IF i <= k THEN h.val[ord[i]] ELSE 0],
                left   |-> [i \in Nodes |-> IF i <= k THEN new(h.left[ord[i]]) ELSE None],
                right  |-> [i \in Nodes |-> IF i <= k THEN new(h.right[ord[i]]) ELSE None],
                parent |-> [i \in Nodes |-> IF i <= k THEN new(h.parent[ord[i]]) ELSE None],
                head   |-> new(h.head),
                last   |-> new(h.last),
                size   |-> h.size],
         keep |-> new(keep)]))

\* ------------------------------------------------------------ heap actions
\* The state after a call that left the heap h0 and returned the node out.
Assign(h0, out) ==
    \E c \in {Canon(h0, out)} :
        /\ val' = c.h.val /\ left' = c.h.left /\ right' = c.h.right
        /\ parent' = c.h.parent
        /\ head' = c.h.head /\ last' = c.h.last /\ size' = c.h.size
        /\ ret' = c.keep

InitHeap ==
    /\ val = [n \in Nodes |-> 0]
    /\ left = [n \in Nodes |-> None]
    /\ right = [n \in Nodes |-> None]
    /\ parent = [n \in Nodes |-> None]
    /\ head = None /\ last = None /\ size = 0
    /\ op = "init" /\ arg = 0 /\ ret = None /\ raised = "none"

\* heap.push(LinkedHeapNode(v))
Push ==
    /\ Free(self) # {}
    /\ \E v \in Vals : \E n \in {Alloc(self)} :
        /\ Assign(push(LinkedHeapNode(self, n, v), n), None)
        /\ op' = "push" /\ arg' = v /\ raised' = "none"
        /\ UNCHANGED <<sortVars, engineVars, libVars>>

\* heap.pop()
Pop ==
    \E r \in {pop(self)} :
        /\ Assign(r.h, r.out)
        /\ op' = "pop" /\ arg' = 0 /\ raised' = r.raised
        /\ UNCHANGED <<sortVars, engineVars, libVars>>

\* heap.popPush(LinkedHeapNode(v))
PopPush ==
    /\ Free(self) # {}
    /\ \E v \in Vals : \E n \in {Alloc(self)} :
       \E r \in {popPush(LinkedHeapNode(self, n, v), n)} :
        /\ Assign(r.h, None)
        /\ op' = "popPush" /\ arg' = v /\ raised' = r.raised
        /\ UNCHANGED <<sortVars, engineVars, libVars>>

vars == <<val, left, right, parent, head, last, size, op, arg, ret, raised,
          input, npushed, output, type_, validation_funcs, result, ncalls, ngen,
          fn, argv, res>>

NoSort == input = <<>> /\ npushed = 0 /\ output = <<>>

\* No all_instances call has been made or is going to be.
NoEngine ==
    /\ type_ = "bool"
    /\ validation_funcs = [none |-> TRUE, items |-> <<>>]
    /\ result = [err |-> "none", vals |-> <<>>]
    /\ ncalls = 0 /\ ngen = 0

\* No library function has been called or is going to be.
NoLib == fn = "none" /\ argv = <<>> /\ res = <<>>

Init == InitHeap /\ NoSort /\ NoEngine /\ NoLib
Next == Push \/ Pop \/ PopPush
Spec == Init /\ [][Next]_vars

NextPushPop == Push \/ Pop
SpecPushPop == Init /\ [][NextPushPop]_vars

\* ------------------------------------------- push all, then pop all (heapsort)
RECURSIVE SeqsUpTo(_)
SeqsUpTo(k) ==
    IF k = 0 THEN {<<>>}
    ELSE Let(SeqsUpTo(k - 1), LAMBDA S :
         S \cup {Append(s, v) : s \in {t \in S : Len(t) = k - 1}, v \in Vals})

InitSort ==
    /\ InitHeap
    /\ NoEngine /\ NoLib
    /\ input \in SeqsUpTo(MaxLen)
    /\ npushed = 0
    /\ output = <<>>

SortPush ==
    /\ npushed < Len(input)
    /\ Free(self) # {}
    /\ \E n \in {Alloc(self)} :
          Assign(push(LinkedHeapNode(self, n, input[npushed + 1]), n), None)
    /\ npushed' = npushed + 1
    /\ op' = "push" /\ arg' = input[npushed + 1] /\ raised' = "none"
    /\ UNCHANGED <<input, output, engineVars, libVars>>

SortPop ==
    /\ npushed = Len(input)
    /\ Len(output) < Len(input)
    /\ \E r \in {pop(self)} :
           /\ Assign(r.h, r.out)
           /\ op' = "pop" /\ arg' = 0 /\ raised' = r.raised
           /\ output' = Append(output, r.h.val[r.out])
    /\ UNCHANGED <<input, npushed, engineVars, libVars>>

NextSort == SortPush \/ SortPop
SpecSort == InitSort /\ [][NextSort]_vars

\* ------------------------------------------------ finite-valued type engine
\* Values.  Every value has the same shape, so that any two can be compared:
\* its kind, its name (the literal, or the class of an instance) and its items.
Value(kind, name, items) == [kind |-> kind, name |-> name, items |-> items]
True == Value("bool", "True", <<>>)
False == Value("bool", "False", <<>>)
IntVal(n) == Value("int", n, <<>>)
StrVal(x) == Value("str", x, <<>>)
TupleVal(items) == Value("tuple", "", items)         \* tuple(combo)
Obj(cls, items) == Value("obj", cls, items)          \* type_(**fields), fields in declaration order
Iter(items) == Value("iter", "", items)              \* a generator, list or filter object

\* What `hasattr(x, "__iter__") and not isinstance(x, (str, bytes))` accepts.
Iterable == {"tuple", "iter"}

\* Type descriptions: kind; args (field types of a dataclass, item types of
\* a tuple, members of a union); for an abstract dataclass its direct
\* subclasses; __mro__ (empty when the type has no such attribute); the
\* arguments of a Literal.
TypeOf(kind, args, abstract, subs, mro, lits) ==
    [kind |-> kind, args |-> args, abstract |-> abstract, subs |-> subs,
     mro |-> mro, lits |-> lits]

TypeDef(t) ==
    CASE t = "bool"   -> TypeOf("bool", <<>>, FALSE, <<>>, <<"bool", "int", "object">>, <<>>)
      [] t = "int"    -> TypeOf("other", <<>>, FALSE, <<>>, <<"int", "object">>, <<>>)
      [] t = "str"    -> TypeOf("other", <<>>, FALSE, <<>>, <<"str", "object">>, <<>>)
      [] t = "Lit3"   -> TypeOf("literal", <<>>, FALSE, <<>>, <<>>,
                                <<StrVal("a"), StrVal("b"), StrVal("c")>>)
      [] t = "Lit12"  -> TypeOf("literal", <<>>, FALSE, <<>>, <<>>,
                                <<IntVal("1"), IntVal("2")>>)
      [] t = "LitMix" -> TypeOf("literal", <<>>, FALSE, <<>>, <<>>,
                                <<IntVal("2"), StrVal("a"), True>>)
      [] t = "TupBL"  -> TypeOf("tuple", <<"bool", "Lit12">>, FALSE, <<>>,
                                <<"tuple", "object">>, <<>>)
      [] t = "R"      -> TypeOf("dataclass", <<"bool", "Lit3">>, FALSE, <<>>,
                                <<"R", "object">>, <<>>)
      [] t = "D"      -> TypeOf("dataclass", <<"bool", "Lit3">>, FALSE, <<>>,
                                <<"D", "R", "object">>, <<>>)
      [] t = "RN"     -> TypeOf("dataclass", <<"R", "TupBL">>, FALSE, <<>>,
                                <<"RN", "object">>, <<>>)
      [] t = "A"      -> TypeOf("dataclass", <<>>, TRUE, <<"A1", "A2">>,
                                <<"A", "ABC", "object">>, <<>>)
      [] t = "A1"     -> TypeOf("dataclass", <<"bool">>, FALSE, <<>>,
                                <<"A1", "A", "ABC", "object">>, <<>>)
      [] t = "A2"     -> TypeOf("dataclass", <<"Lit12">>, FALSE, <<>>,
                                <<"A2", "A", "ABC", "object">>, <<>>)
      [] t = "U"      -> TypeOf("union", <<"bool", "Lit12">>, FALSE, <<>>, <<>>, <<>>)
      [] t = "UT"     -> TypeOf("union", <<"TupBL", "R", "A">>, FALSE, <<>>, <<>>, <<>>)
      [] t = "RBad"   -> TypeOf("dataclass", <<"bool", "int">>, FALSE, <<>>,
                                <<"RBad", "object">>, <<>>)

\* The types all_instances is called with, the keys of validation_funcs and
\* the validators.
Types == {"bool", "int", "Lit3", "Lit12", "LitMix", "TupBL", "R", "D", "RN",
          "A", "A1", "A2", "U", "UT", "RBad"}
KeyTypes == {"bool", "int", "object", "A", "U"}
Preds == {"first", "last"}

RECURSIVE FirstLeaf(_)
FirstLeaf(v) == IF v.items = <<>> THEN v ELSE FirstLeaf(v.items[1])
RECURSIVE LastLeaf(_)
LastLeaf(v) == IF v.items = <<>> THEN v ELSE LastLeaf(v.items[Len(v.items)])

\* validation_funcs[key](v) for the two validators.
Holds(pred, v) ==
    IF pred = "first" THEN FirstLeaf(v).name \in {"True", "1", "a"}
    ELSE LastLeaf(v).name \in {"False", "2", "b"}

\* What iterating a generator gives: the values, or the TypeError of line 240.
Ok(vals) == [err |-> "none", vals |-> vals]
Err == [err |-> "TypeError", vals |-> <<>>]
AnyErr(rs) == \E i \in DOMAIN rs : rs[i].err # "none"

\* filter(validation_funcs[key], vals)
filter(pred, r) ==
    IF r.err # "none" THEN r
    ELSE Ok(SelectSeq(r.vals, LAMBDA v : Holds(pred, v)))

\* Variant: descends into every nesting level whatever levels_to_flatten is.
RECURSIVE flatten_deep(_, _, _)
flatten_deep(it0, unbounded, levels_to_flatten) ==
    Let(it0, LAMBDA it :
    IF it = <<>> THEN <<>>
    ELSE (IF it[1].kind \in Iterable
          THEN flatten_deep(it[1].items, unbounded, levels_to_flatten)
          ELSE <<it[1]>>)
         \o flatten_deep(Tail(it), unbounded, levels_to_flatten))

\* Variant: still descends when levels_to_flatten has reached 0.
RECURSIVE flatten_oneLevelMore(_, _, _)
flatten_oneLevelMore(it0, unbounded, levels_to_flatten) ==
    Let(it0, LAMBDA it :
    IF it = <<>> THEN <<>>
    ELSE (IF it[1].kind \in Iterable /\ (unbounded \/ levels_to_flatten >= 0)
          THEN flatten_oneLevelMore(it[1].items, unbounded,
                       IF unbounded THEN levels_to_flatten ELSE levels_to_flatten - 1)
          ELSE <<it[1]>>)
         \o flatten_oneLevelMore(Tail(it), unbounded, levels_to_flatten))

\* flatten(it, levels_to_flatten); unbounded stands for levels_to_flatten=None.
RECURSIVE flatten(_, _, _)
flatten(it0, unbounded, levels_to_flatten) ==
    Let(it0, LAMBDA it :
    IF it = <<>> THEN <<>>
    ELSE (IF it[1].kind \in Iterable /\ (unbounded \/ levels_to_flatten > 0)
          THEN flatten(it[1].items, unbounded,
                       IF unbounded THEN levels_to_flatten ELSE levels_to_flatten - 1)
          ELSE <<it[1]>>)
         \o flatten(Tail(it), unbounded, levels_to_flatten))

RECURSIVE _chain(_)
_chain(ss0) ==
    Let(ss0, LAMBDA ss :
    IF ss = <<>> THEN <<>> ELSE ss[1] \o _chain(Tail(ss)))

\* Variant: the first iterable varies fastest.
RECURSIVE product_firstFastest(_)
product_firstFastest(iterables0) ==
    Let(iterables0, LAMBDA its :
    IF its = <<>> THEN << <<>> >>
    ELSE Let(product_firstFastest(Tail(its)), LAMBDA rest :
         _chain([j \in 1..Len(rest) |->
                    [i \in 1..Len(its[1]) |-> <<its[1][i]>> \o rest[j]]])))

\* itertools.product(*iterables): the last iterable varies fastest.
RECURSIVE product(_)
product(iterables0) ==
    Let(iterables0, LAMBDA its :
    IF its = <<>> THEN << <<>> >>
    ELSE Let(product(Tail(its)), LAMBDA rest :
         _chain([i \in 1..Len(its[1]) |->
                    [j \in 1..Len(rest) |-> <<its[1][i]>> \o rest[j]]])))

\* Variant: every validator found in the mro is applied.
RECURSIVE _mroScan_noBreak(_, _, _)
_mroScan_noBreak(mro, r, vf) ==
    IF mro = <<>> THEN r
    ELSE IF mro[1] \notin DOMAIN vf.map THEN _mroScan_noBreak(Tail(mro), r, vf)
    ELSE _mroScan_noBreak(Tail(mro), filter(vf.map[mro[1]], r), vf)

\* `for superclass in type_.__mro__`: the first validator found is applied.
RECURSIVE _mroScan(_, _, _)
_mroScan(mro, r, vf) ==
    IF mro = <<>> THEN r
    ELSE IF mro[1] \notin DOMAIN vf.map THEN _mroScan(Tail(mro), r, vf)
    ELSE filter(vf.map[mro[1]], r)

\* type(v) of a literal value
TypeOfValue(v) == v.kind

RECURSIVE _apply_validation_func(_, _, _)
_apply_validation_func(t, r0, vf) ==
    Let(r0, LAMBDA r :
    IF vf.none THEN r
    ELSE IF t \in DOMAIN vf.map THEN filter(vf.map[t], r)
    ELSE IF TypeDef(t).mro # <<>> THEN _mroScan(TypeDef(t).mro, r, vf)
    ELSE IF TypeDef(t).kind = "literal"
    THEN Let(TypeDef(t).lits, LAMBDA lits :
         Ok(flatten([i \in 1..Len(lits) |->
                       Iter(_apply_validation_func(TypeOfValue(lits[i]),
                                                   Ok(<<lits[i]>>), vf).vals)],
                    FALSE, 1)))
    ELSE r)

RECURSIVE cached_wrapper(_, _)

\* The generation function; every recursive call goes through the wrapper.
all_instances(t, vf) ==
    Let(TypeDef(t), LAMBDA d :
    IF t = "bool" THEN Ok(<<True, False>>)
    ELSE IF d.kind = "dataclass"
    THEN IF d.abstract
         THEN Let([i \in 1..Len(d.subs) |-> cached_wrapper(d.subs[i], vf)], LAMBDA rs :
              IF AnyErr(rs) THEN Err
              ELSE Ok(flatten([i \in 1..Len(rs) |-> Iter(rs[i].vals)], FALSE, 1)))
         ELSE Let([i \in 1..Len(d.args) |-> cached_wrapper(d.args[i], vf)], LAMBDA rs :
              IF AnyErr(rs) THEN Err
              ELSE Let(product([i \in 1..Len(rs) |-> rs[i].vals]), LAMBDA combos :
                   Ok([j \in 1..Len(combos) |-> Obj(t, combos[j])])))
    ELSE IF d.kind = "tuple"
    THEN Let([i \in 1..Len(d.args) |-> cached_wrapper(d.args[i], vf)], LAMBDA rs :
         IF AnyErr(rs) THEN Err
         ELSE Let(product([i \in 1..Len(rs) |-> rs[i].vals]), LAMBDA combos :
              Ok([j \in 1..Len(combos) |-> TupleVal(combos[j])])))
    ELSE IF d.kind = "union"
    THEN Let([i \in 1..Len(d.args) |-> cached_wrapper(d.args[i], vf)], LAMBDA rs :
         IF AnyErr(rs) THEN Err
         ELSE Ok(flatten([i \in 1..Len(rs) |-> Iter(rs[i].vals)], FALSE, 1)))
    ELSE IF d.kind = "literal" THEN Ok(d.lits)
    ELSE Err)

\* cached_wrapper(type_, all_instances_func, validation_funcs) on a cache miss
cached_wrapper(t, vf) ==
    _apply_validation_func(t, all_instances(t, vf), vf)

\* A dict argument is its items in insertion order, or None; a frozendict is
\* the mapping alone.
frozendict(d) ==
    [none |-> FALSE,
     map |-> [k \in {d.items[i][1] : i \in 1..Len(d.items)} |->
                 (CHOOSE it \in {d.items[i] : i \in 1..Len(d.items)} : it[1] = k)[2]]]
NoneVF == [none |-> TRUE, map |-> <<>>]

\* The validation_funcs the wrapper hands on (lines 136-143).
Normalize(d) == IF ~d.none THEN frozendict(d) ELSE NoneVF

\* `@cache def cached_wrapper` runs inside wrapper, once per call: the keys
\* held by the cache that the call looks up.
CacheOfCall == {}

\* wrapper(type_, validation_funcs)
wrapper(t, d) == cached_wrapper(t, Normalize(d))

\* ------------------------------------------------------------ engine runs
RECURSIVE DictItems(_)
DictItems(k) ==
    IF k = 0 THEN {<<>>}
    ELSE Let(DictItems(k - 1), LAMBDA S :
         S \cup {Append(s, <<key, pr>>) :
                   s \in {x \in S : Len(x) = k - 1},
                   key \in KeyTypes, pr \in Preds})

\* The dicts a caller passes, and None.
VFDicts ==
    {[none |-> TRUE, items |-> <<>>]}
    \cup {[none |-> FALSE, items |-> s] :
            s \in {x \in DictItems(MaxVF) :
                     \A i, j \in 1..Len(x) : i # j => x[i][1] # x[j][1]}}

\* The same entries inserted in any order.
Reorderings(d) ==
    {e \in VFDicts : /\ e.none = d.none
                     /\ Len(e.items) = Len(d.items)
                     /\ {e.items[i] : i \in 1..Len(e.items)}
                          = {d.items[i] : i \in 1..Len(d.items)}}

InitEngine ==
    /\ InitHeap /\ NoSort /\ NoLib
    /\ type_ \in Types
    /\ validation_funcs \in VFDicts
    /\ result = Ok(<<>>)
    /\ ncalls = 0 /\ ngen = 0

\* list(all_instances(type_, d)) for a dict d holding the entries of validation_funcs
Call ==
    /\ ncalls < MaxCalls
    /\ \E d \in Reorderings(validation_funcs) :
       \E r \in {wrapper(type_, d)} :
          /\ result' = r
          /\ validation_funcs' = d
          /\ ngen' = IF <<type_, Normalize(d)>> \in CacheOfCall THEN ngen ELSE ngen + 1
    /\ ncalls' = ncalls + 1
    /\ UNCHANGED <<type_, heapVars, callVars, sortVars, libVars>>

NextEngine == Call
SpecEngine == InitEngine /\ [][NextEngine]_vars

\* -------------------------------------------------------- class hierarchies
MaxClasses == 4    \* classes of a class graph

Classes == 1..MaxClasses

\* The direct bases of the classes 1..k; a class is defined after its bases.
RECURSIVE BasesUpTo(_)
BasesUpTo(k) ==
    IF k = 0 THEN {<<>>}
    ELSE {Append(f, S) : f \in BasesUpTo(k - 1), S \in SUBSET (1..(k - 1))}

\* Class graphs.  isHier: the classes descend from HierarchicalEnum, which
\* defines __iter__; otherwise no class of the graph has that attribute.
ClassDAGs == {[bases |-> b, isHier |-> h] : b \in BasesUpTo(MaxClasses), h \in BOOLEAN}

\* class_.__subclasses__()
Subclasses(dag, class_) == {sub \in Classes : class_ \in dag.bases[sub]}

\* hasattr(x, "__iter__") for a class object x
HasIterAttr(dag, x) == dag.isHier

TypeError == [err |-> "TypeError", set |-> {}]

\* set(flatten(subs)) for a list of sets of classes: flatten takes a class
\* that has the attribute __iter__ for an iterable and iterates it, which a
\* class object does not support.
flattenClasses(dag, subs) ==
    Let(UNION {r.set : r \in subs}, LAMBDA all :
    IF \E x \in all : HasIterAttr(dag, x)
    THEN TypeError
    ELSE [err |-> "none", set |-> all])

RECURSIVE getAllSubclasses(_, _, _)
getAllSubclasses(dag, class_, includeSelf) ==
    Let({getAllSubclasses(dag, sub, TRUE) : sub \in Subclasses(dag, class_)}, LAMBDA subs :
    IF \E r \in subs : r.err # "none" THEN TypeError
    ELSE Let(flattenClasses(dag, subs), LAMBDA fl :
         IF fl.err # "none" THEN fl
         ELSE IF includeSelf THEN [fl EXCEPT !.set = @ \cup {class_}]
         ELSE fl))

\* leafClassesRecur(myclass): the class itself when it has no subclasses,
\* otherwise the list of the results for its subclasses (class_ = None).
RECURSIVE leafClassesRecur(_, _)
leafClassesRecur(dag, myclass) ==
    IF Subclasses(dag, myclass) = {}
    THEN [class_ |-> myclass, items |-> {}]
    ELSE [class_ |-> None,
          items |-> {leafClassesRecur(dag, subclass) : subclass \in Subclasses(dag, myclass)}]

\* set(flatten(it)) for what leafClassesRecur returns.  `for x in it` on a
\* class object raises TypeError; an element that is a list, or a class with
\* the attribute __iter__, is flattened in turn; any other class is yielded.
RECURSIVE flattenLeaves(_, _)
flattenLeaves(dag, it) ==
    IF it.class_ # None THEN TypeError
    ELSE Let({IF x.class_ # None /\ ~HasIterAttr(dag, x.class_)
              THEN [err |-> "none", set |-> {x.class_}]
              ELSE flattenLeaves(dag, x) : x \in it.items}, LAMBDA rs :
         IF \E r \in rs : r.err # "none" THEN TypeError
         ELSE [err |-> "none", set |-> UNION {r.set : r \in rs}])

\* leafClasses(cls) = list(set(flatten(leafClassesRecur(cls))))
leafClasses(dag, cls) == flattenLeaves(dag, leafClassesRecur(dag, cls))

\* HierarchicalEnum.__iter__ of an instance of class_: the classes of the
\* instances yielded and their number.
HierarchicalEnum__iter__(dag, class_) ==
    Let(getAllSubclasses(dag, class_, FALSE), LAMBDA r :
    IF r.err # "none" THEN [err |-> r.err, types |-> {}, n |-> 0]
    ELSE [err |-> "none", types |-> r.set, n |-> Cardinality(r.set)])

\* HierarchicalEnum.__len__ of an instance of class_
HierarchicalEnum__len__(dag, class_) ==
    Let(getAllSubclasses(dag, class_, FALSE), LAMBDA r :
    IF r.err # "none" THEN [err |-> r.err, n |-> 0]
    ELSE [err |-> "none", n |-> Cardinality(r.set)])

\* A library call leaves the heap and the engine alone.
LibCall(name, outcome) ==
    /\ fn = "none"
    /\ fn' = name
    /\ res' = outcome
    /\ UNCHANGED <<argv, heapVars, callVars, sortVars, engineVars>>

InitLib == InitHeap /\ NoSort /\ NoEngine /\ fn = "none" /\ res = <<>>

InitClasses ==
    /\ InitLib
    /\ argv \in {[dag |-> d, class_ |-> c, includeSelf |-> b] :
                    d \in ClassDAGs, c \in Classes, b \in BOOLEAN}

CallGetAllSubclasses ==
    LibCall("getAllSubclasses", getAllSubclasses(argv.dag, argv.class_, argv.includeSelf))

\* iter(x) and len(x) for an instance x of a HierarchicalEnum class
CallIter ==
    /\ argv.dag.isHier
    /\ LibCall("__iter__", HierarchicalEnum__iter__(argv.dag, argv.class_))

CallLen ==
    /\ argv.dag.isHier
    /\ LibCall("__len__", HierarchicalEnum__len__(argv.dag, argv.class_))

CallLeafClasses ==
    LibCall("leafClasses", leafClasses(argv.dag, argv.class_))

NextClasses == CallGetAllSubclasses \/ CallIter \/ CallLen \/ CallLeafClasses
SpecClasses == InitClasses /\ [][NextClasses]_vars

\* ------------------------------------------------------ date/time codec
MaxDays == 3       \* durations have -MaxDays..MaxDays days

\* types_to_yaml_tags: type -> (tag suffix, field names)
DateFields == <<"year", "month", "day", "hour", "minute", "second", "microsecond", "tzinfo">>
DurationFields == <<"days", "seconds", "microseconds">>
types_to_yaml_tags ==
    [t \in {"datetime.datetime", "datetime.timedelta", "pd.Timestamp", "NaTType",
            "NAType", "Timedelta", "np.timedelta64"} |->
        CASE t = "datetime.datetime"  -> <<"datetime.datetime", DateFields>>
          [] t = "datetime.timedelta" -> <<"datetime.timedelta", DurationFields>>
          [] t = "pd.Timestamp"       -> <<"pd.Timestamp", DateFields>>
          [] t = "NaTType"            -> <<"pd.NaT", <<>> >>
          [] t = "NAType"             -> <<"pd.NA", <<>> >>
          [] t = "Timedelta"          -> <<"pd.Timedelta", DurationFields>>
          [] t = "np.timedelta64"     -> <<"np.timedelta64", DurationFields>>]

\* yaml_tags_to_types: the type registered under a tag suffix
yaml_tags_to_types(tag) ==
    CHOOSE t \in DOMAIN types_to_yaml_tags : types_to_yaml_tags[t][1] = tag

\* datetime.timedelta(**dct): absent components are 0 and the result is
\* normalized to 0 <= microseconds < 10^6 and 0 <= seconds < 86400.
timedelta(dct) ==
    LET get(k) == IF k \in DOMAIN dct THEN dct[k] ELSE 0
        s == get("seconds") + (get("microseconds") \div 1000000)
    IN  [type |-> "datetime.timedelta",
         days |-> get("days") + (s \div 86400),
         seconds |-> s % 86400,
         microseconds |-> get("microseconds") % 1000000]

\* The durations handed to the codec.
Durations ==
    {timedelta([days |-> d, seconds |-> s, microseconds |-> u]) :
        d \in (0 - MaxDays)..MaxDays, s \in {0, 1, 10, 86399}, u \in {0, 1, 999999}}

Range(f) == {f[i] : i \in DOMAIN f}

\* Variant: every field is emitted.
to_yaml_dict_keepZero(obj) ==
    [tag |-> types_to_yaml_tags[obj.type][1],
     dct |-> [key \in Range(types_to_yaml_tags[obj.type][2]) |-> obj[key]]]

\* YamlCodecDatetimes.to_yaml_dict: the tag suffix and the mapping.
to_yaml_dict(obj) ==
    [tag |-> types_to_yaml_tags[obj.type][1],
     dct |-> [key \in {k \in Range(types_to_yaml_tags[obj.type][2]) : obj[k] # 0}
                |-> obj[key]]]

\* YamlCodecDatetimes.from_yaml_dict
from_yaml_dict(yaml_tag_suffix, dct) ==
    IF yaml_tags_to_types(yaml_tag_suffix) = "datetime.timedelta"
    THEN timedelta(dct)
    ELSE [type |-> yaml_tags_to_types(yaml_tag_suffix)]

InitCodec ==
    /\ InitLib
    /\ argv \in {[obj |-> d] : d \in Durations}

CallToYamlDict ==
    LibCall("to_yaml_dict", to_yaml_dict(argv.obj))

\* The emitted tag and mapping are decoded.
CallFromYamlDict ==
    /\ fn = "to_yaml_dict"
    /\ fn' = "from_yaml_dict"
    /\ res' = [tag |-> res.tag, dct |-> res.dct, obj |-> from_yaml_dict(res.tag, res.dct)]
    /\ UNCHANGED <<argv, heapVars, callVars, sortVars, engineVars>>

NextCodec == CallToYamlDict \/ CallFromYamlDict
SpecCodec == InitCodec /\ [][NextCodec]_vars

\* ------------------------------------------------------ interval utilities
MaxPoint == 4      \* interval bounds are 0, 0.5, ..., MaxPoint / 2, held in tenths
MaxAtoms == 3      \* most atomic intervals of an interval

Points == {5 * i : i \in 0..MaxPoint}
MinGaps == {0 - 5, 0, 4, 5, 10}

\* Atomic intervals: bound types (TRUE for closed) and bounds.
Atomic(left_, lower, upper, right_) ==
    [left |-> left_, lower |-> lower, upper |-> upper, right |-> right_]

Atomics ==
    {Atomic(l, a, b, r) : l \in BOOLEAN, a \in Points, b \in Points, r \in BOOLEAN}

IsAtomic(a) == a.lower < a.upper \/ (a.lower = a.upper /\ a.left /\ a.right)

\* b lies after a with a point between them that belongs to neither.
Apart(a, b) ==
    a.upper < b.lower \/ (a.upper = b.lower /\ ~a.right /\ ~b.left)

\* portion.Interval: its atomic intervals in ascending order, kept apart.
RECURSIVE IntervalsOf(_)
IntervalsOf(k) ==
    IF k = 0 THEN {<<>>}
    ELSE Let(IntervalsOf(k - 1), LAMBDA S :
         S \cup UNION {{Append(iv, a) :
                           a \in {y \in Atomics :
                                    /\ IsAtomic(y)
                                    /\ iv # <<>> => Apart(iv[Len(iv)], y)}} :
                       iv \in {x \in S : Len(x) = k - 1}})

Intervals == IntervalsOf(MaxAtoms)

\* (a | b).enclosure for atomic intervals with a not after b
enclosure(a, b) ==
    Atomic(a.left, a.lower,
           IF b.upper > a.upper THEN b.upper ELSE a.upper,
           IF b.upper > a.upper THEN b.right
           ELSE IF b.upper = a.upper THEN a.right \/ b.right ELSE a.right)

\* x | y for an interval x and an atomic interval y that does not begin
\* before the last atomic interval of x
Union(x, y) ==
    IF x = <<>> THEN <<y>>
    ELSE IF Apart(x[Len(x)], y) THEN Append(x, y)
    ELSE Append(SubSeq(x, 1, Len(x) - 1), enclosure(x[Len(x)], y))

\* Variant: the gap is compared with >=.
RECURSIVE _reduce_strict(_, _, _)
_reduce_strict(x0, ys0, minIv) ==
    Let(<<x0, ys0>>, LAMBDA xy :
    LET x == xy[1]
        ys == xy[2]
    IN  IF ys = <<>> THEN x
        ELSE _reduce_strict(
                 IF ys[1].lower - x[Len(x)].upper >= minIv
                 THEN Union(x, ys[1])
                 ELSE Union(SubSeq(x, 1, Len(x) - 1), enclosure(x[Len(x)], ys[1])),
                 Tail(ys), minIv))

\* functools.reduce(lambda x, y: ..., ys) with the accumulated value x
RECURSIVE _reduce(_, _, _)
_reduce(x0, ys0, minIv) ==
    Let(<<x0, ys0>>, LAMBDA xy :
    LET x == xy[1]
        ys == xy[2]
    IN  IF ys = <<>> THEN x
        ELSE _reduce(
                 IF ys[1].lower - x[Len(x)].upper > minIv
                 THEN Union(x, ys[1])
                 ELSE Union(SubSeq(x, 1, Len(x) - 1), enclosure(x[Len(x)], ys[1])),
                 Tail(ys), minIv))

\* reduce of an empty interval without an initial value raises TypeError.
consolidateInterval(iv, minIv) ==
    IF iv = <<>> THEN [err |-> "TypeError", iv |-> <<>>]
    ELSE [err |-> "none", iv |-> _reduce(<<iv[1]>>, Tail(iv), minIv)]

InitInterval ==
    /\ InitLib
    /\ argv \in {[iv |-> i, minIv |-> g] : i \in Intervals, g \in MinGaps}

CallConsolidateInterval ==
    LibCall("consolidateInterval", consolidateInterval(argv.iv, argv.minIv))

NextInterval == CallConsolidateInterval
SpecInterval == InitInterval /\ [][NextInterval]_vars

\* ------------------------------------------------- enumeration counting
MaxRows == 2       \* rows of the series
MaxRowLen == 3     \* items of a row

\* Instances of the classes A, B, C of a hierarchy with root class R.
Member(cls) == [cls |-> cls, root |-> "R"]

\* str(a): HierarchicalEnum.__repr__
repr(a) == IF a.cls = a.root THEN <<a.cls>> ELSE <<a.root, ".", a.cls>>

RECURSIVE ListsUpTo(_, _)
ListsUpTo(S, k) ==
    IF k = 0 THEN {<<>>}
    ELSE Let(ListsUpTo(S, k - 1), LAMBDA L :
         L \cup {Append(l, x) : l \in {m \in L : Len(m) = k - 1}, x \in S})

\* The rows hold instances of A and B; the universe is empty, a single
\* instance, or the instances of A, B, C in any order.
RowLists == ListsUpTo({Member("A"), Member("B")}, MaxRowLen)
Universes ==
    {u \in ListsUpTo({Member("A"), Member("B"), Member("C")}, 3) :
        /\ \A i, j \in 1..Len(u) : i # j => u[i] # u[j]
        /\ Len(u) # 2}

\* pd.Series of rows: the index labels and the values.
IndexLabels == <<"x", "y", "z", "w">>
Series(rows) == [index |-> SubSeq(IndexLabels, 1, Len(rows)), values |-> rows]

\* countDict[e] after the loop over lst
countDict(lst, e) == Cardinality({i \in 1..Len(lst) : lst[i] = e})

\* Variant: a member is counted once however often it occurs.
make_count_presence(lst, enumCls1) ==
    IF Len(lst) = 0 THEN [i \in 1..Len(enumCls1) |-> 0]
    ELSE [i \in 1..Len(enumCls1) |->
             IF \E j \in 1..Len(lst) : lst[j] = enumCls1[i] THEN 1 ELSE 0]

\* make_count: what the list lst holds afterwards.
make_count(lst, enumCls1) ==
    IF Len(lst) = 0 THEN [i \in 1..Len(enumCls1) |-> 0]
    ELSE [i \in 1..Len(enumCls1) |-> countDict(lst, enumCls1[i])]

\* The outcome is the table (index, column labels, data) and the rows of ser
\* as make_count left them.  np.vstack needs at least one row and
\* enumList[0] at least one member.
enum_counts(ser, enumCls) ==
    LET enumList == enumCls
        applied == [i \in 1..Len(ser.values) |-> make_count(ser.values[i], enumList)]
    IN  IF Len(applied) = 0
        THEN [err |-> "ValueError", index |-> <<>>, columns |-> <<>>, data |-> <<>>,
              ser |-> applied]
        ELSE IF Len(enumList) = 0
        THEN [err |-> "IndexError", index |-> <<>>, columns |-> <<>>, data |-> <<>>,
              ser |-> applied]
        ELSE [err |-> "none", index |-> ser.index,
              columns |-> [i \in 1..Len(enumList) |-> repr(enumList[i])],
              data |-> applied, ser |-> applied]

InitCounts ==
    /\ InitLib
    /\ argv \in {[ser |-> Series(rows), enumCls |-> u] :
                    rows \in ListsUpTo(RowLists, MaxRows), u \in Universes}

CallEnumCounts ==
    LibCall("enum_counts", enum_counts(argv.ser, argv.enumCls))

NextCounts == CallEnumCounts
SpecCounts == InitCounts /\ [][NextCounts]_vars

\* ------------------------------------------------------------- localization
AliasTexts == {"x", "y"}

\* AliasableHierEnum.aliases_to_members(cls) with the default alias_func, for
\* a hierarchy dag and the alias text alias[c] of an instance of each class c
\* in the default locale.  The default alias_func takes two arguments and is
\* called with one; `locale` at line 106 is not a name of the function.
aliases_to_members(dag, cls, alias) ==
    Let(getAllSubclasses(dag, cls, FALSE), LAMBDA subs :
    IF subs.err # "none" THEN [err |-> subs.err, out |-> <<>>]
    ELSE IF subs.set # {} THEN [err |-> "TypeError", out |-> <<>>]
    ELSE LET out == [a \in {alias[sub] : sub \in subs.set} |->
                        CHOOSE sub \in subs.set : alias[sub] = a]
         IN  IF Cardinality(DOMAIN out) < Cardinality(subs.set)
             THEN [err |-> "NameError", out |-> <<>>]
             ELSE [err |-> "none", out |-> out])

InitAlias ==
    /\ InitLib
    /\ argv \in {[dag |-> d, class_ |-> c, alias |-> a] :
                    d \in {x \in ClassDAGs : x.isHier}, c \in Classes,
                    a \in [Classes -> AliasTexts]}

CallAliasesToMembers ==
    LibCall("aliases_to_members", aliases_to_members(argv.dag, argv.class_, argv.alias))

NextAlias == CallAliasesToMembers
SpecAlias == InitAlias /\ [][NextAlias]_vars

\* ------------------------------------------------------------ line breaks
MaxText == 3       \* characters of the text

\* Strings are sequences of characters.
Chars == {"a", " "}
Texts == ListsUpTo(Chars, MaxText)
Delims == {<<c>> : c \in Chars}

\* Optional arguments: None, or a value.
NoneArg(default) == [none |-> TRUE, v |-> default]
Some(v) == [none |-> FALSE, v |-> v]

\* The least index at which delim occurs in s, 0 when it does not.
find(s, delim) ==
    LET at == {i \in 1..(Len(s) - Len(delim) + 1) :
                   SubSeq(s, i, i + Len(delim) - 1) = delim}
    IN  IF at = {} THEN 0 ELSE CHOOSE i \in at : \A j \in at : i <= j

\* s.split(delim)
RECURSIVE split(_, _)
split(s0, delim) ==
    Let(s0, LAMBDA s :
    Let(find(s, delim), LAMBDA i :
    IF i = 0 THEN <<s>>
    ELSE <<SubSeq(s, 1, i - 1)>> \o split(SubSeq(s, i + Len(delim), Len(s)), delim)))

\* The loop of lines 238-244 from segment i (0-based) on.
RECURSIVE _joinSegments(_, _, _, _, _)
_joinSegments(out0, segments, i, delim, delimIndices) ==
    Let(out0, LAMBDA out :
    IF i >= Len(segments) - 1 THEN out
    ELSE _joinSegments(
             IF i \in delimIndices
             THEN out \o <<"\n">> \o segments[i + 2]
             ELSE out \o delim \o segments[i + 2],
             segments, i + 1, delim, delimIndices))

addLineBreaks(s, delim, maxLen, delimIndices) ==
    IF find(s, delim) = 0 THEN [err |-> "none", out |-> s]
    ELSE IF ~maxLen.none THEN [err |-> "NotImplementedError", out |-> <<>>]
    ELSE IF ~(maxLen.none # delimIndices.none)
    THEN [err |-> "ValueError", out |-> <<>>]
    ELSE Let(split(s, delim), LAMBDA segments :
         [err |-> "none",
          out |-> _joinSegments(segments[1], segments, 0, delim, delimIndices.v)])

InitLineBreaks ==
    /\ InitLib
    /\ argv \in {[s |-> s, delim |-> d, maxLen |-> m, delimIndices |-> di] :
                    s \in Texts, d \in Delims, m \in {NoneArg(0), Some(2)},
                    di \in {NoneArg({})} \cup {Some(I) : I \in SUBSET (0..(MaxText - 1))}}

CallAddLineBreaks ==
    LibCall("addLineBreaks",
            addLineBreaks(argv.s, argv.delim, argv.maxLen, argv.delimIndices))

NextLineBreaks == CallAddLineBreaks
SpecLineBreaks == InitLineBreaks /\ [][NextLineBreaks]_vars

\* ---------------------------------------------------------------- flatten
MaxSize == 5
MaxLevels == 3

\* The nested iterables flatten is called on: lists whose elements are
\* integers, strings or lists again, with at most n elements over all levels.
RECURSIVE NestedOfSize(_)
NestedOfSize(n) ==
    IF n = 0 THEN {<<>>}
    ELSE UNION {
           {<<x>> \o rest :
               x \in (IF k = 1 THEN {IntVal(1), StrVal("ab")} ELSE {})
                     \cup {Iter(inner) : inner \in NestedOfSize(k - 1)},
               rest \in NestedOfSize(n - k)} : k \in 1..n}

Nested == UNION {NestedOfSize(n) : n \in 0..MaxSize}

InitFlatten ==
    /\ InitLib
    /\ argv \in {[it |-> it, unbounded |-> u, levels_to_flatten |-> l] :
                    it \in Nested, u \in BOOLEAN, l \in 0..MaxLevels}
    /\ argv.unbounded => argv.levels_to_flatten = 0

CallFlatten ==
    LibCall("flatten", flatten(argv.it, argv.unbounded, argv.levels_to_flatten))

NextFlatten == CallFlatten
SpecFlatten == InitFlatten /\ [][NextFlatten]_vars


\* -------------------------------------------------------------- listEquals
MaxListSize == 3

\* Lists of the integers 1 and 2 and of lists again, with at most n elements
\* over all levels.
RECURSIVE ListsOfSize(_)
ListsOfSize(n) ==
    IF n = 0 THEN {<<>>}
    ELSE UNION {
           {<<x>> \o rest :
               x \in (IF k = 1 THEN {IntVal(1), IntVal(2)} ELSE {})
                     \cup {Iter(inner) : inner \in ListsOfSize(k - 1)},
               rest \in ListsOfSize(n - k)} : k \in 1..n}

\* The arguments: lists, and the scalars and the tuple that are not lists.
ListArgs ==
    {Iter(s) : s \in UNION {ListsOfSize(n) : n \in 0..MaxListSize}}
        \cup {IntVal(1), IntVal(2), TupleVal(<<IntVal(1)>>)}

\* type(x) == list
IsList(x) == x.kind = "iter"

\* Variant: an element of list1 may match an element of list2 at any index.
RECURSIVE listEquals_anyIndex(_, _)
listEquals_anyIndex(list1, list2) ==
    IF ~IsList(list1) THEN list1 = list2
    ELSE IF ~IsList(list2) \/ Len(list1.items) # Len(list2.items) THEN FALSE
    ELSE \A i \in 1..Len(list1.items) : \E j \in 1..Len(list2.items) :
             listEquals_anyIndex(list1.items[i], list2.items[j])

\* listEquals(list1, list2).  When list1 is a list, type(list1) != type(list2)
\* is `list2 is not a list`; the last branch of the source (len(list1) == 0)
\* is never reached, the third one taking every list.
RECURSIVE listEquals(_, _)
listEquals(list1, list2) ==
    IF ~IsList(list1) THEN list1 = list2
    ELSE IF ~IsList(list2) \/ Len(list1.items) # Len(list2.items) THEN FALSE
    ELSE \A i \in 1..Len(list1.items) :
             listEquals(list1.items[i], list2.items[i])

InitListEquals ==
    /\ InitLib
    /\ argv \in {[list1 |-> a, list2 |-> b] : a \in ListArgs, b \in ListArgs}

CallListEquals ==
    LibCall("listEquals", [out |-> listEquals(argv.list1, argv.list2)])

NextListEquals == CallListEquals
SpecListEquals == InitListEquals /\ [][NextListEquals]_vars


\* ------------------------------------------------------------- heap claims
IsSorted(s) == \A i \in 1..(Len(s) - 1) : s[i] <= s[i + 1]
Occurrences(s) == [v \in Vals |-> Cardinality({i \in 1..Len(s) : s[i] = v})]

\* C1: pushing all N values into an empty heap and popping N times returns
\* the values in non-decreasing key order, every pushed value exactly once.
C1_PushAllPopAllSorted ==
    /\ IsSorted(output)
    /\ raised = "none"
    /\ (npushed = Len(input) /\ Len(output) = Len(input))
          => Occurrences(output) = Occurrences(input)

C1_Witness ==
    /\ Len(input) >= 6
    /\ Len(output) = Len(input)
    /\ input[1] > input[2] /\ input[3] < input[6]

\* C2: after every push and every pop of an interleaved run from the empty
\* heap validate() is true: every non-root node's key is >= its parent's
\* key, and head is absent exactly when size is 0 and last is absent.
C2_ValidateAlways ==
    /\ validate(self)
    /\ \A pn \in Positions(self) : pn[2] # head => val[pn[2]] >= val[parent[pn[2]]]
    /\ (head = None) <=> (size = 0 /\ last = None)
    /\ (head = None) <=> (size = 0)
    /\ (head = None) <=> (last = None)

C2_Witness ==
    /\ op = "pop" /\ size >= 5
    /\ \E pn \in Positions(self) : pn[2] # head /\ val[pn[2]] > val[parent[pn[2]]]

\* C3: after any sequence of push, pop and popPush the nodes reachable from
\* head occupy exactly the level-order positions 1..size.
C3_CompleteTree ==
    {pn[1] : pn \in Positions(self)} = 1..size

\* C4: pop() on a heap of size 0 fails with IndexError (EmptyCollection) and
\* leaves head, last and size as they were.
C4_PopEmptyFails ==
    [][(op' = "pop" /\ size = 0) =>
          /\ raised' = "IndexError"
          /\ pop(self).h = self
          /\ head' = head /\ last' = last /\ size' = 0
          /\ (head = None /\ last = None) => (head' = None /\ last' = None)]_vars

C4_Witness ==
    op = "pop" /\ raised = "IndexError" /\ head = None /\ last = None /\ size = 0

\* C5: pop() on a heap of size 1 returns the sole node and leaves size 0
\* with head and last absent.
C5_PopSingleton ==
    [][(op' = "pop" /\ size = 1) =>
          /\ pop(self).out = head
          /\ raised' = "none"
          /\ ret' # None /\ val'[ret'] = val[head]
          /\ size' = 0 /\ head' = None /\ last' = None]_vars

C5_Witness ==
    op = "pop" /\ raised = "none" /\ size = 0 /\ ret # None /\ head = None /\ last = None

\* C6: on a non-empty heap popPush(item) leaves the same size and the same
\* multiset of stored values as pop() followed by push(item).
C6_PopPushAsPopThenPush ==
    [][(op' = "popPush" /\ size > 0) =>
          \A n \in {Alloc(self)} :
          \A q \in {push(LinkedHeapNode(pop(self).h, n, arg'), n)} :
              /\ raised' = "none"
              /\ size' = q.size
              /\ StoredVals(self)' = StoredVals(q)]_vars

C6_Witness ==
    op = "popPush" /\ raised = "none" /\ size >= 4 /\ val[head] # arg

\* ----------------------------------------------------------- engine claims
NoValidators == validation_funcs.none \/ validation_funcs.items = <<>>

\* Built from booleans, literals, fixed tuples and concrete records only.
RECURSIVE IsPlain(_)
IsPlain(t) ==
    \/ TypeDef(t).kind \in {"bool", "literal"}
    \/ /\ TypeDef(t).kind = "tuple" \/ (TypeDef(t).kind = "dataclass" /\ ~TypeDef(t).abstract)
       /\ \A i \in 1..Len(TypeDef(t).args) : IsPlain(TypeDef(t).args[i])

\* The enumerations of the field types, in field-declaration order.
FieldDomains(t) ==
    [i \in 1..Len(TypeDef(t).args) |-> cached_wrapper(TypeDef(t).args[i], NoneVF).vals]

\* Number of combinations of the fields i..n.
RECURSIVE Combinations(_, _)
Combinations(doms, i) ==
    IF i > Len(doms) THEN 1 ELSE Len(doms[i]) * Combinations(doms, i + 1)

\* The k-th element of the Cartesian product, the last field varying fastest.
Combination(doms, k) ==
    [i \in 1..Len(doms) |->
        doms[i][(((k - 1) \div Combinations(doms, i + 1)) % Len(doms[i])) + 1]]

\* C7: with no validators a concrete record type of finite-valued fields
\* yields exactly one record per element of the Cartesian product of its
\* field domains, in field-declaration order and all distinct, so as many as
\* the product of the field counts (6 for a boolean and a 3-value literal);
\* boolean yields 2 values and a literal as many as it has arguments.
C7_RecordIsProductOfFields ==
    (ncalls >= 1 /\ NoValidators) =>
        /\ type_ = "bool" =>
              /\ result = Ok(<<True, False>>)
              /\ Len(result.vals) = 2
        /\ TypeDef(type_).kind = "literal" =>
              /\ result.err = "none"
              /\ Len(result.vals) = Len(TypeDef(type_).lits)
        /\ (TypeDef(type_).kind = "dataclass" /\ IsPlain(type_)) =>
              \A doms \in {FieldDomains(type_)} :
                  /\ result.err = "none"
                  /\ Len(result.vals) = Combinations(doms, 1)
                  /\ \A k \in 1..Len(result.vals) :
                        result.vals[k] = Obj(type_, Combination(doms, k))
                  /\ \A k, l \in 1..Len(result.vals) :
                        k # l => result.vals[k] # result.vals[l]
        /\ type_ = "R" => Len(result.vals) = 6

C7_Witness ==
    /\ ncalls >= 1 /\ NoValidators
    /\ type_ = "R"
    /\ Len(result.vals) = 6
    /\ result.vals[2] = Obj("R", <<True, StrVal("b")>>)

\* The members' own enumerations, one after the other.
MemberEnumerations(t, vf) ==
    _chain([i \in 1..Len(TypeDef(t).args) |-> cached_wrapper(TypeDef(t).args[i], vf).vals])

\* C8 as claimed: for a union of N finite-valued member types all_instances
\* yields the order-preserving concatenation of each member's own
\* enumeration, tuple- and record-valued instances intact.
C8_UnionIsConcatenation ==
    (ncalls >= 1 /\ TypeDef(type_).kind = "union") =>
        result = Ok(MemberEnumerations(type_, Normalize(validation_funcs)))

\* C8 as amended: the same, for a union type that is not itself a key of
\* validation_funcs.
C8_UnionIsConcatenationUnlessKeyed ==
    (/\ ncalls >= 1
     /\ TypeDef(type_).kind = "union"
     /\ \A i \in 1..Len(validation_funcs.items) : validation_funcs.items[i][1] # type_) =>
        /\ result = Ok(MemberEnumerations(type_, Normalize(validation_funcs)))
        /\ \A i \in 1..Len(TypeDef(type_).args) :
           \A r \in {cached_wrapper(TypeDef(type_).args[i], Normalize(validation_funcs))} :
           \A j \in 1..Len(r.vals) :
              \E k \in 1..Len(result.vals) : result.vals[k] = r.vals[j]

C8_Witness ==
    /\ ncalls >= 1
    /\ type_ = "UT"
    /\ validation_funcs.items = <<<<"bool", "first">>>>
    /\ result.vals[1] = TupleVal(<<True, IntVal("1")>>)
    /\ result.vals[3].kind = "obj"

\* The instances of r that the validator accepts.
AcceptedBy(pred, r) ==
    [r EXCEPT !.vals = SelectSeq(@, LAMBDA v : Holds(pred, v))]

Keyed(vf) == IF vf.none THEN {} ELSE DOMAIN vf.map

C10_EqualKeysNeverRecompute ==
    [][(/\ ncalls >= 1
        /\ ncalls' = ncalls + 1
        /\ type_' = type_
        /\ Normalize(validation_funcs') = Normalize(validation_funcs))
          => ngen' = ngen]_vars

\* ------------------------------------------------- heap claims, continued
\* The node in level-order position pos of h, None when the slot is empty.
NodeAt(h, pos) ==
    Let(Positions(h), LAMBDA P :
    IF \E pn \in P : pn[1] = pos
    THEN (CHOOSE pn \in P : pn[1] = pos)[2]
    ELSE None)

\* C18: after any sequence of push and pop `last` is the node in level-order
\* position size, and is absent exactly when size is 0.
C18_LastIsLastSlot ==
    /\ (last = None) <=> (size = 0)
    /\ size > 0 => last = NodeAt(self, size)
    /\ size > 0 => \A pn \in Positions(self) : pn[1] <= size

\* A pop that emptied a level, so that `last` was found down the right spine.
C18_Witness ==
    /\ op = "pop" /\ raised = "none"
    /\ size = 3
    /\ last = right[head]
    /\ last = NodeAt(self, 3)

\* C19: on a non-empty heap in heap order popPush(item) leaves every
\* non-root node's key >= its parent's key, and validate() true.
C19_PopPushRestoresOrder ==
    [][(op' = "popPush" /\ size > 0 /\ validate(self)) =>
          /\ validate(self)'
          /\ \A pn \in Positions(self)' :
                pn[2] # head' => val'[pn[2]] >= val'[parent'[pn[2]]]]_vars

\* C20: after popPush on a non-empty heap `last` is the node in the last
\* level-order slot, reachable from head; on a heap of size 1 it is item.
C20_PopPushKeepsLast ==
    [][(op' = "popPush" /\ size > 0 /\ last = NodeAt(self, size)) =>
          /\ last' = NodeAt(self, size)'
          /\ last' \in Reachable(self)'
          /\ size = 1 => last' = head']_vars


\* --------------------------------------------------------- library claims
RECURSIVE StrictAncestors(_, _)
StrictAncestors(dag, c) ==
    UNION {{b} \cup StrictAncestors(dag, b) : b \in dag.bases[c]}

\* The classes that inherit from c, directly or not.
StrictDescendants(dag, c) == {d \in Classes : c \in StrictAncestors(dag, d)}

\* C11: for any class graph and any class of it, getAllSubclasses without
\* includeSelf returns exactly the strict descendants of the class, never the
\* class itself, and with includeSelf exactly those and the class.
C11_AllSubclassesAreDescendants ==
    fn = "getAllSubclasses" =>
        /\ res.err = "none"
        /\ res.set = StrictDescendants(argv.dag, argv.class_)
                       \cup (IF argv.includeSelf THEN {argv.class_} ELSE {})
        /\ ~argv.includeSelf => argv.class_ \notin res.set

\* C12: iterating an instance of a hierarchical-enumeration class yields one
\* instance per transitive subclass of its class, nothing for a leaf, and
\* len of the instance is the number of instances yielded.
C12_IterYieldsSubclassInstances ==
    /\ fn = "__iter__" =>
          /\ res.err = "none"
          /\ res.types = StrictDescendants(argv.dag, argv.class_)
          /\ res.n = Cardinality(StrictDescendants(argv.dag, argv.class_))
    /\ fn = "__len__" =>
          /\ res.err = "none"
          /\ res.n = Cardinality(StrictDescendants(argv.dag, argv.class_))


\* C13: for every duration d, to_yaml_dict(d) emits the tag suffix
\* datetime.timedelta with a mapping of exactly the non-zero components of d,
\* and from_yaml_dict on that tag and mapping yields a duration equal to d.
C13_DurationRoundTrip ==
    /\ fn \in {"to_yaml_dict", "from_yaml_dict"} =>
          /\ res.tag = "datetime.timedelta"
          /\ DOMAIN res.dct = {k \in {"days", "seconds", "microseconds"} : argv.obj[k] # 0}
          /\ \A k \in DOMAIN res.dct : res.dct[k] = argv.obj[k]
    /\ fn = "from_yaml_dict" => res.obj = argv.obj

C13_Witness ==
    /\ fn = "from_yaml_dict"
    /\ argv.obj.days = 3 /\ argv.obj.seconds = 10 /\ argv.obj.microseconds = 0
    /\ DOMAIN res.dct = {"days", "seconds"}
    /\ res.obj = argv.obj


\* The atomic intervals after which the next one begins more than minIv later.
Breaks(iv, minIv) ==
    {i \in 1..(Len(iv) - 1) : iv[i + 1].lower - iv[i].upper > minIv}

C16_DuplicateAliasDetected ==
    fn = "aliases_to_members" =>
        \A members \in {StrictDescendants(argv.dag, argv.class_)} :
            IF \E m1, m2 \in members : m1 # m2 /\ argv.alias[m1] = argv.alias[m2]
            THEN res.err = "ValueError"
            ELSE /\ res.err = "none"
                 /\ DOMAIN res.out = {argv.alias[m] : m \in members}
                 /\ \A m \in members : res.out[argv.alias[m]] = m


\* C17: for every text and delimiter a call of addLineBreaks that supplies
\* both maxLen and delimIndices, and a call that supplies neither, fails
\* with ValueError.
C17_ExactlyOneOfMaxLenAndIndices ==
    (/\ fn = "addLineBreaks"
     /\ argv.maxLen.none = argv.delimIndices.none) =>
        res.err = "ValueError"


\* ------------------------------------------------- heap claims, concluded
\* C21: push sifts by relinking: every node of the heap, the pushed one
\* included, stores after the push the value it stored before.  pop changes
\* stored values only by exchanging the values of the former head node and
\* the former last node.
C21_PushKeepsValuesPopExchangesTwo ==
    [][/\ op' = "push" =>
            \A n \in {Alloc(self)} :
            \A p \in {LinkedHeapNode(self, n, arg')} :
            \A q \in {push(p, n)} :
                /\ self' = Canon(q, None).h
                /\ \A m \in Reachable(self) \cup {n} : q.val[m] = p.val[m]
                /\ Reachable(q) = Reachable(self) \cup {n}
       /\ (op' = "pop" /\ size > 0) =>
            \A r \in {pop(self)} :
                /\ self' = Canon(r.h, r.out).h
                /\ \A m \in Reachable(self) \ {head, last} : r.h.val[m] = val[m]
                /\ \/ r.h.val[head] = val[head] /\ r.h.val[last] = val[last]
                   \/ r.h.val[head] = val[last] /\ r.h.val[last] = val[head]]_vars

\* A push whose item was relinked up to the head.
C21_Witness ==
    /\ op = "push" /\ size >= 4
    /\ val[head] = arg
    /\ \A m \in Reachable(self) \ {head} : val[m] > arg

\* C25: after any sequence of push and pop, size is the number of nodes
\* reachable from head, head has no parent, every child of a reachable node
\* has that node as its parent, and the node a pop returned has no parent,
\* left or right and no node of the heap links to it.
C25_LinksConsistent ==
    /\ size = Cardinality(Reachable(self))
    /\ head # None => parent[head] = None
    /\ \A n \in Reachable(self) :
          /\ left[n] # None => parent[left[n]] = n
          /\ right[n] # None => parent[right[n]] = n
    /\ (op = "pop" /\ raised = "none") =>
          /\ ret # None
          /\ parent[ret] = None /\ left[ret] = None /\ right[ret] = None
          /\ head # ret /\ last # ret
          /\ \A n \in Reachable(self) :
                left[n] # ret /\ right[n] # ret /\ parent[n] # ret

C25_Witness ==
    /\ op = "pop" /\ raised = "none" /\ size >= 3
    /\ ret # None /\ parent[ret] = None
    /\ ret \notin Reachable(self)


\* ---------------------------------------------- library claims, concluded
\* One nesting level removed: every element that is a container is replaced
\* by its own elements, in place.
RECURSIVE Unnest(_)
Unnest(s) ==
    IF s = <<>> THEN <<>>
    ELSE (IF s[1].kind \in Iterable THEN s[1].items ELSE <<s[1]>>) \o Unnest(Tail(s))

RECURSIVE UnnestTimes(_, _)
UnnestTimes(s, n) == IF n = 0 THEN s ELSE UnnestTimes(Unnest(s), n - 1)

RECURSIVE EqualAtEveryLevel(_, _)
EqualAtEveryLevel(a, b) ==
    IF IsList(a) /\ IsList(b)
    THEN /\ Len(a.items) = Len(b.items)
         /\ \A i \in 1..Len(a.items) : EqualAtEveryLevel(a.items[i], b.items[i])
    ELSE ~IsList(a) /\ ~IsList(b) /\ a = b

Reversed(s) == [i \in 1..Len(s) |-> s[Len(s) + 1 - i]]

C24_LeafClassesAreLeaves ==
    fn = "leafClasses" =>
        /\ res.err = "none"
        /\ res.set = {c \in StrictDescendants(argv.dag, argv.class_) \cup {argv.class_} :
                         Subclasses(argv.dag, c) = {}}
        /\ Subclasses(argv.dag, argv.class_) = {} => res.set = {argv.class_}

====
